---- MODULE Spec2Model ----
(***************************************************************************)
(* Model of the client-side authentication UI:                             *)
(*   - the Auth Form (src/components/Login.tsx, component Login)            *)
(*   - the Session Guard (src/unnamed/part_000, component DashboardPage)    *)
(* Strings that the code inspects character by character (the e-mail and   *)
(* the password) are sequences of one-character strings.  Every async      *)
(* handler is cut at its awaits: one action per synchronous segment.       *)
(* A React commit that follows a state change (re-render, effect cleanup   *)
(* and effect re-run) belongs to the action that changed the state.        *)
(***************************************************************************)
EXTENDS Integers, Sequences, FiniteSets, TLC

\* ------------------------------------------------------------------ bounds
\* number of provider operations the Auth Form may dispatch in one behaviour
MaxOps == 2
\* number of redirects the Session Guard page may record in one behaviour
MaxRedirects == 3

\* ------------------------------------------------------------------ inputs
\* values a user can put in the e-mail field
Emails ==
  { <<>>,
    <<"a">>,
    <<"a", "@", "b">>,
    <<"a", "@", "b", ".", "c">>,
    <<"a", " ", "@", "b", ".", "c">> }

\* values a user can put in the password field (lengths 0, 5, 6)
Passwords ==
  { <<>>,
    <<"1", "2", "3", "4", "5">>,
    <<"1", "2", "3", "4", "5", "6">> }

\* what a rejected provider promise can carry: an Error with its message
\* (the provider's errors carry a non-empty one), or a thrown value that is
\* not an Error and has no message
ProviderFailures ==
  { [isError |-> TRUE,  message |-> "Firebase: Error (auth/invalid-credential)."],
    [isError |-> FALSE, message |-> ""] }

\* ------------------------------------------------------------ Auth Form text
undefined == "undefined"
EmptyFormData == [email |-> <<>>, password |-> <<>>]
NoErrors == [email |-> undefined, password |-> undefined]

EmailRequired == "Email is required"
EmailInvalid == "Please enter a valid email"
PasswordRequired == "Password is required"
PasswordTooShort == "Password must be at least 6 characters"
MinPasswordLength == 6

AccountCreated == "Account created!"
LoginSuccessful == "Login successful!"
LoginFailedFallback == "Login failed. Please try again."
GoogleFailedFallback == "Google login failed. Please try again."
DashboardPath == "/dashboard"

SignUpOp == "createUserWithEmailAndPassword"
SignInOp == "signInWithEmailAndPassword"
PopupOp == "signInWithPopup"

VARIABLES
  formData,         \* Login: useState formData {email, password}
  errors,           \* Login: useState errors
  isLoading,        \* Login: useState isLoading
  isGoogleLoading,  \* Login: useState isGoogleLoading
  isRedirecting,    \* Login: useState isRedirecting
  successMessage,   \* Login: useState successMessage
  authError,        \* Login: useState authError
  authMode,         \* Login: useState authMode
  submitPc,         \* position of the running handleSubmit
  submitBranch,     \* branch of the if (authMode === 'signUp') it awaits in
  googlePc,         \* position of the running handleGoogleSignIn
  calls,            \* provider operations called so far, with arguments
  navs,             \* router.push targets so far
  lastEvent,        \* the handler segment that ran last
  mounted,          \* DashboardPage is mounted
  isSigningOut,     \* DashboardPage: useState isSigningOut
  signOutMessage,   \* DashboardPage: useState signOutMessage
  signOutPc,        \* position of the running handleSignOut
  user,             \* the provider's current user is present
  listeners,        \* active onAuthStateChanged callbacks: captured isSigningOut
  redirects         \* router.replace('/login') calls so far, by origin

loginVars ==
  <<formData, errors, isLoading, isGoogleLoading, isRedirecting,
    successMessage, authError, authMode, submitPc, submitBranch, googlePc,
    calls, navs>>

guardVars ==
  <<mounted, isSigningOut, signOutMessage, signOutPc, user, listeners,
    redirects>>

vars == <<loginVars, guardVars, lastEvent>>

Event(type, arg) == [type |-> type, arg |-> arg]

\* --------------------------------------------------------------- Auth Form
Truthy(s) == s # undefined /\ s # ""

IsWhitespace(c) == c \in {" ", "\t", "\n"}

\* /^[^\s@]+@[^\s@]+\.[^\s@]+$/.test(s)
EmailRegexTest(s) ==
  \E i \in 1..Len(s) : \E j \in 1..Len(s) :
    /\ s[i] = "@"
    /\ s[j] = "."
    /\ 1 < i
    /\ i + 1 < j
    /\ j < Len(s)
    /\ \A k \in (1..Len(s)) \ {i} : ~IsWhitespace(s[k]) /\ s[k] # "@"

ValidateEmail(email) ==
  IF email = <<>> THEN EmailRequired
  ELSE IF ~EmailRegexTest(email) THEN EmailInvalid
  ELSE undefined

\* variant: the length test written as <=
ValidatePassword_OffByOne(password) ==
  IF password = <<>> THEN PasswordRequired
  ELSE IF Len(password) <= MinPasswordLength THEN PasswordTooShort
  ELSE undefined

ValidatePassword(password) ==
  IF password = <<>> THEN PasswordRequired
  ELSE IF Len(password) < MinPasswordLength THEN PasswordTooShort
  ELSE undefined

\* newErrors of validateForm
NewErrors(data) ==
  [email |-> ValidateEmail(data.email),
   password |-> ValidatePassword(data.password)]

\* variant: only the e-mail error decides the result
ValidateForm_EmailOnly(data) ==
  NewErrors(data).email = undefined

\* Object.keys(newErrors).length === 0
ValidateForm(data) ==
  /\ NewErrors(data).email = undefined
  /\ NewErrors(data).password = undefined

FieldValues(name) == IF name = "email" THEN Emails ELSE Passwords

\* variant: the edit drops every error
ClearFieldError_All(errs, name) ==
  IF Truthy(errs[name]) THEN NoErrors ELSE errs

\* setErrors of handleChange
ClearFieldError(errs, name) ==
  IF Truthy(errs[name]) THEN [errs EXCEPT ![name] = undefined] ELSE errs

SubmitButtonDisabled == isLoading \/ isGoogleLoading

\* variant: the federated button looks at its own flag only
GoogleButtonDisabled_OwnFlag == isGoogleLoading

GoogleButtonDisabled == isLoading \/ isGoogleLoading

InProgressLabel(mode) ==
  IF mode = "signUp" THEN "Creating account..." ELSE "Signing in..."

IdleLabel(mode) == IF mode = "signUp" THEN "Create Account" ELSE "Sign In"

\* text of the submit button
SubmitButtonLabel ==
  IF isLoading THEN InProgressLabel(authMode) ELSE IdleLabel(authMode)

ProviderOpFor(mode) == IF mode = "signUp" THEN SignUpOp ELSE SignInOp

\* variant: the message follows the AuthMode shown when the call resolves
SuccessMessageFor_CurrentMode(branch) ==
  IF authMode = "signUp" THEN AccountCreated ELSE LoginSuccessful

SuccessMessageFor(branch) ==
  IF branch = "signUp" THEN AccountCreated ELSE LoginSuccessful

\* variant: no fallback text
SubmitErrorMessage_NoFallback(failure) == failure.message

SubmitErrorMessage(failure) ==
  IF failure.isError THEN failure.message ELSE LoginFailedFallback

GoogleErrorMessage(failure) ==
  IF failure.isError THEN failure.message ELSE GoogleFailedFallback

HandleChange(name, value) ==
  /\ value # formData[name]
  /\ formData' = [formData EXCEPT ![name] = value]
  /\ errors' = ClearFieldError(errors, name)
  /\ lastEvent' = Event("change", name)
  /\ UNCHANGED <<isLoading, isGoogleLoading, isRedirecting, successMessage,
                 authError, authMode, submitPc, submitBranch, googlePc,
                 calls, navs>>
  /\ UNCHANGED guardVars

ToggleAuthMode ==
  /\ authMode' = IF authMode = "signUp" THEN "signIn" ELSE "signUp"
  /\ lastEvent' = Event("toggle", "")
  /\ UNCHANGED <<formData, errors, isLoading, isGoogleLoading, isRedirecting,
                 successMessage, authError, submitPc, submitBranch, googlePc,
                 calls, navs>>
  /\ UNCHANGED guardVars

\* variant: validation runs before the transient state is reset
SubmitInvalid_ValidateFirst ==
  /\ ~SubmitButtonDisabled
  /\ submitPc = "idle"
  /\ ~ValidateForm(formData)
  /\ errors' = NewErrors(formData)
  /\ lastEvent' = Event("submit", "")
  /\ UNCHANGED <<formData, isLoading, isGoogleLoading, isRedirecting,
                 successMessage, authError, authMode, submitPc, submitBranch,
                 googlePc, calls, navs>>
  /\ UNCHANGED guardVars

\* handleSubmit, from the click to the return of the failed validation
SubmitInvalid ==
  /\ ~SubmitButtonDisabled
  /\ submitPc = "idle"
  /\ ~ValidateForm(formData)
  /\ successMessage' = ""
  /\ authError' = ""
  /\ isRedirecting' = FALSE
  /\ errors' = NewErrors(formData)
  /\ lastEvent' = Event("submit", "")
  /\ UNCHANGED <<formData, isLoading, isGoogleLoading, authMode, submitPc,
                 submitBranch, googlePc, calls, navs>>
  /\ UNCHANGED guardVars

\* handleSubmit, from the click to the await of the provider call
SubmitValid ==
  /\ ~SubmitButtonDisabled
  /\ submitPc = "idle"
  /\ Len(calls) < MaxOps
  /\ ValidateForm(formData)
  /\ successMessage' = ""
  /\ authError' = ""
  /\ isRedirecting' = FALSE
  /\ errors' = NewErrors(formData)
  /\ isLoading' = TRUE
  /\ submitBranch' = authMode
  /\ calls' = Append(calls, [op |-> ProviderOpFor(authMode),
                             args |-> <<formData.email, formData.password>>])
  /\ submitPc' = "awaitProvider"
  /\ lastEvent' = Event("submit", "")
  /\ UNCHANGED <<formData, isGoogleLoading, authMode, googlePc, navs>>
  /\ UNCHANGED guardVars

\* handleSubmit, from the resolved provider call to the await of the delay
SubmitResolved ==
  /\ submitPc = "awaitProvider"
  /\ successMessage' = SuccessMessageFor(submitBranch)
  /\ formData' = EmptyFormData
  /\ isRedirecting' = TRUE
  /\ submitPc' = "delay"
  /\ lastEvent' = Event("submitResolved", "")
  /\ UNCHANGED <<errors, isLoading, isGoogleLoading, authError, authMode,
                 submitBranch, googlePc, calls, navs>>
  /\ UNCHANGED guardVars

\* variant: the handler has no finally block
SubmitRejected_NoFinally(failure) ==
  /\ submitPc = "awaitProvider"
  /\ authError' = SubmitErrorMessage(failure)
  /\ submitPc' = "idle"
  /\ lastEvent' = Event("submitRejected", failure.message)
  /\ UNCHANGED <<formData, errors, isLoading, isGoogleLoading, isRedirecting,
                 successMessage, authMode, submitBranch, googlePc, calls,
                 navs>>
  /\ UNCHANGED guardVars

\* handleSubmit, catch and finally after the rejected provider call
SubmitRejected(failure) ==
  /\ submitPc = "awaitProvider"
  /\ authError' = SubmitErrorMessage(failure)
  /\ isLoading' = FALSE
  /\ submitPc' = "idle"
  /\ lastEvent' = Event("submitRejected", failure.message)
  /\ UNCHANGED <<formData, errors, isGoogleLoading, isRedirecting,
                 successMessage, authMode, submitBranch, googlePc, calls,
                 navs>>
  /\ UNCHANGED guardVars

\* variant: an edit made during the delay aborts the navigation
SubmitDelayElapsed_Abortable ==
  /\ submitPc = "delay"
  /\ navs' = IF formData = EmptyFormData THEN Append(navs, DashboardPath)
             ELSE navs
  /\ isLoading' = FALSE
  /\ submitPc' = "idle"
  /\ lastEvent' = Event("submitNavigated", "")
  /\ UNCHANGED <<formData, errors, isGoogleLoading, isRedirecting,
                 successMessage, authError, authMode, submitBranch, googlePc,
                 calls>>
  /\ UNCHANGED guardVars

\* handleSubmit, router.push and finally after the delay
SubmitDelayElapsed ==
  /\ submitPc = "delay"
  /\ navs' = Append(navs, DashboardPath)
  /\ isLoading' = FALSE
  /\ submitPc' = "idle"
  /\ lastEvent' = Event("submitNavigated", "")
  /\ UNCHANGED <<formData, errors, isGoogleLoading, isRedirecting,
                 successMessage, authError, authMode, submitBranch, googlePc,
                 calls>>
  /\ UNCHANGED guardVars

\* handleGoogleSignIn, from the click to the await of signInWithPopup
HandleGoogleSignIn ==
  /\ ~GoogleButtonDisabled
  /\ googlePc = "idle"
  /\ Len(calls) < MaxOps
  /\ successMessage' = ""
  /\ authError' = ""
  /\ isRedirecting' = FALSE
  /\ isGoogleLoading' = TRUE
  /\ calls' = Append(calls, [op |-> PopupOp, args |-> <<"GoogleAuthProvider">>])
  /\ googlePc' = "awaitProvider"
  /\ lastEvent' = Event("google", "")
  /\ UNCHANGED <<formData, errors, isLoading, authMode, submitPc,
                 submitBranch, navs>>
  /\ UNCHANGED guardVars

\* variant: the redirecting indicator is not shown
GoogleResolved_NoIndicator ==
  /\ googlePc = "awaitProvider"
  /\ successMessage' = LoginSuccessful
  /\ googlePc' = "delay"
  /\ lastEvent' = Event("googleResolved", "")
  /\ UNCHANGED <<formData, errors, isLoading, isGoogleLoading, isRedirecting,
                 authError, authMode, submitPc, submitBranch, calls, navs>>
  /\ UNCHANGED guardVars

\* handleGoogleSignIn, from the resolved popup to the await of the delay
GoogleResolved ==
  /\ googlePc = "awaitProvider"
  /\ successMessage' = LoginSuccessful
  /\ isRedirecting' = TRUE
  /\ googlePc' = "delay"
  /\ lastEvent' = Event("googleResolved", "")
  /\ UNCHANGED <<formData, errors, isLoading, isGoogleLoading, authError,
                 authMode, submitPc, submitBranch, calls, navs>>
  /\ UNCHANGED guardVars

GoogleRejected(failure) ==
  /\ googlePc = "awaitProvider"
  /\ authError' = GoogleErrorMessage(failure)
  /\ isGoogleLoading' = FALSE
  /\ googlePc' = "idle"
  /\ lastEvent' = Event("googleRejected", failure.message)
  /\ UNCHANGED <<formData, errors, isLoading, isRedirecting, successMessage,
                 authMode, submitPc, submitBranch, calls, navs>>
  /\ UNCHANGED guardVars

GoogleDelayElapsed ==
  /\ googlePc = "delay"
  /\ navs' = Append(navs, DashboardPath)
  /\ isGoogleLoading' = FALSE
  /\ googlePc' = "idle"
  /\ lastEvent' = Event("googleNavigated", "")
  /\ UNCHANGED <<formData, errors, isLoading, isRedirecting, successMessage,
                 authError, authMode, submitPc, submitBranch, calls>>
  /\ UNCHANGED guardVars

\* ----------------------------------------------------------- Session Guard
SignedOutMessage == "Signed out successfully!"
SignOutFailedMessage == "Sign out failed. Please try again."
LoginPath == "/login"

\* variant: the callback tests the user only
GuardRedirects_IgnoresFlag(u, captured) == ~u

\* the onAuthStateChanged callback of a subscription that captured the
\* isSigningOut value `captured`: does it call router.replace('/login')?
GuardRedirects(u, captured) == ~u /\ ~captured

\* variant: the effect returns no cleanup
Unsubscribe_Leak(subs) == subs

\* the cleanup returned by the effect: unsubscribe
Unsubscribe(subs) == <<>>

\* variant: the effect has no dependency on isSigningOut and keeps the
\* callback of the first render
RunEffect_StaleClosure(subs, flag) == subs

\* useEffect with dependencies [isSigningOut, router]: the commit that
\* changes isSigningOut runs the cleanup (unsubscribe) of the previous effect
\* and subscribes a callback that captures the new value
RunEffect(subs, flag) == Append(Unsubscribe(subs), flag)

SignOutButtonDisabled == isSigningOut

\* redirects issued by delivering user `u` to every active callback
Delivered(u, subs) ==
  [k \in 1..Cardinality({i \in 1..Len(subs) : GuardRedirects(u, subs[i])})
     |-> "guard"]

\* slots of the redirect log still owed to a running handleSignOut
Reserved == IF signOutPc = "idle" THEN 0 ELSE 1

\* the provider reports its current user (on subscription and on change)
OnAuthStateChanged(u) ==
  /\ Len(redirects) + Len(Delivered(u, listeners)) + Reserved <= MaxRedirects
  /\ user' = u
  /\ redirects' = redirects \o Delivered(u, listeners)
  /\ lastEvent' = Event("authState", IF u THEN "user" ELSE "null")
  /\ UNCHANGED <<mounted, isSigningOut, signOutMessage, signOutPc, listeners>>
  /\ UNCHANGED loginVars

\* handleSignOut, from the click to the await of signOut(auth)
HandleSignOut ==
  /\ mounted
  /\ ~SignOutButtonDisabled
  /\ signOutPc = "idle"
  /\ Len(redirects) < MaxRedirects
  /\ isSigningOut' = TRUE
  /\ signOutMessage' = SignedOutMessage
  /\ listeners' = RunEffect(listeners, TRUE)
  /\ signOutPc' = "awaitSignOut"
  /\ lastEvent' = Event("signOut", "")
  /\ UNCHANGED <<mounted, user, redirects>>
  /\ UNCHANGED loginVars

\* handleSignOut, from the resolved signOut to the await of the delay
SignOutResolved ==
  /\ signOutPc = "awaitSignOut"
  /\ user' = FALSE
  /\ signOutPc' = "delay"
  /\ lastEvent' = Event("signOutResolved", "")
  /\ UNCHANGED <<mounted, isSigningOut, signOutMessage, listeners, redirects>>
  /\ UNCHANGED loginVars

\* variant: the catch leaves the flag set
SignOutRejected_NoReset ==
  /\ signOutPc = "awaitSignOut"
  /\ signOutPc' = "idle"
  /\ IF mounted
       THEN signOutMessage' = SignOutFailedMessage
       ELSE UNCHANGED signOutMessage
  /\ lastEvent' = Event("signOutRejected", "")
  /\ UNCHANGED <<mounted, isSigningOut, listeners, user, redirects>>
  /\ UNCHANGED loginVars

\* handleSignOut, the catch after the rejected signOut; the state setters
\* of an unmounted component do nothing
SignOutRejected ==
  /\ signOutPc = "awaitSignOut"
  /\ signOutPc' = "idle"
  /\ IF mounted
       THEN /\ isSigningOut' = FALSE
            /\ signOutMessage' = SignOutFailedMessage
            /\ listeners' = RunEffect(listeners, FALSE)
       ELSE UNCHANGED <<isSigningOut, signOutMessage, listeners>>
  /\ lastEvent' = Event("signOutRejected", "")
  /\ UNCHANGED <<mounted, user, redirects>>
  /\ UNCHANGED loginVars

\* handleSignOut, router.replace after the delay
SignOutDelayElapsed ==
  /\ signOutPc = "delay"
  /\ redirects' = Append(redirects, "signOut")
  /\ signOutPc' = "idle"
  /\ lastEvent' = Event("signOutRedirected", "")
  /\ UNCHANGED <<mounted, isSigningOut, signOutMessage, user, listeners>>
  /\ UNCHANGED loginVars

\* teardown of DashboardPage: React runs the effect's cleanup
Unmount ==
  /\ mounted
  /\ mounted' = FALSE
  /\ listeners' = Unsubscribe(listeners)
  /\ lastEvent' = Event("unmount", "")
  /\ UNCHANGED <<isSigningOut, signOutMessage, signOutPc, user, redirects>>
  /\ UNCHANGED loginVars


InitLogin ==
  /\ formData = EmptyFormData
  /\ errors = NoErrors
  /\ isLoading = FALSE
  /\ isGoogleLoading = FALSE
  /\ isRedirecting = FALSE
  /\ successMessage = ""
  /\ authError = ""
  /\ authMode = "signIn"
  /\ submitPc = "idle"
  /\ submitBranch = "signIn"
  /\ googlePc = "idle"
  /\ calls = <<>>
  /\ navs = <<>>

InitGuard ==
  /\ mounted = TRUE
  /\ isSigningOut = FALSE
  /\ signOutMessage = ""
  /\ signOutPc = "idle"
  /\ user \in BOOLEAN
  /\ listeners = <<FALSE>>
  /\ redirects = <<>>

Init ==
  /\ InitLogin
  /\ InitGuard
  /\ lastEvent = Event("mount", "")

Next ==
  \/ \E name \in {"email", "password"} :
       \E value \in FieldValues(name) : HandleChange(name, value)
  \/ ToggleAuthMode
  \/ SubmitInvalid
  \/ SubmitValid
  \/ SubmitResolved
  \/ \E failure \in ProviderFailures : SubmitRejected(failure)
  \/ SubmitDelayElapsed
  \/ HandleGoogleSignIn
  \/ GoogleResolved
  \/ \E failure \in ProviderFailures : GoogleRejected(failure)
  \/ GoogleDelayElapsed

Spec == Init /\ [][Next]_vars

\* the timers of the post-success delays fire
FairSpec == Spec /\ WF_vars(SubmitDelayElapsed) /\ WF_vars(GoogleDelayElapsed)

\* the awaited provider promise settles, one way or the other
SubmitSettled ==
  SubmitResolved \/ \E failure \in ProviderFailures : SubmitRejected(failure)

GoogleSettled ==
  GoogleResolved \/ \E failure \in ProviderFailures : GoogleRejected(failure)

\* the timers fire and every provider call settles
LiveSpec == FairSpec /\ WF_vars(SubmitSettled) /\ WF_vars(GoogleSettled)

NextGuard ==
  \/ \E u \in BOOLEAN : OnAuthStateChanged(u)
  \/ HandleSignOut
  \/ SignOutResolved
  \/ SignOutRejected
  \/ SignOutDelayElapsed
  \/ Unmount

SpecGuard == Init /\ [][NextGuard]_vars

\* ================================================================= claims
\* what the user sees as a failed validation, stated on the field values
EmailShaped(email) == EmailRegexTest(email)

FormInvalid ==
  \/ formData.email = <<>>
  \/ ~EmailShaped(formData.email)
  \/ formData.password = <<>>
  \/ Len(formData.password) < 6

SubmitAttempt == lastEvent' = Event("submit", "")

\* C1: a submit attempt whose form fails validation, in either AuthMode,
\* calls no provider operation, does not set the loading flag, issues no
\* navigation and leaves no handler running that could do so later.
C1_InvalidSubmitStaysLocal ==
  [][(SubmitAttempt /\ FormInvalid)
       => /\ calls' = calls
          /\ navs' = navs
          /\ ~isLoading /\ ~isLoading'
          /\ submitPc' = "idle"]_vars

C1_Witness ==
  /\ lastEvent = Event("submit", "")
  /\ authMode = "signUp"
  /\ formData.email # <<>> /\ EmailShaped(formData.email)
  /\ errors.password = PasswordTooShort
  /\ calls = <<>> /\ ~isLoading

\* C2: after a submit attempt the errors are exactly the validation of the
\* current form data: the e-mail error is 'required' if empty, else
\* 'valid email' if not e-mail shaped, else none; the password error is
\* 'required' if empty, else 'at least 6' if shorter than 6, else none; the
\* fields are checked independently and the submit is dispatched iff both
\* fields have no error.
C2_ErrorsAreValidationOfForm ==
  [][SubmitAttempt
       => /\ errors'.email =
               IF formData.email = <<>> THEN "Email is required"
               ELSE IF ~EmailShaped(formData.email)
                      THEN "Please enter a valid email"
               ELSE undefined
          /\ errors'.password =
               IF formData.password = <<>> THEN "Password is required"
               ELSE IF Len(formData.password) < 6
                      THEN "Password must be at least 6 characters"
               ELSE undefined
          /\ (submitPc' = "awaitProvider")
               <=> (errors'.email = undefined /\ errors'.password = undefined)
     ]_vars

C2_Witness ==
  /\ lastEvent = Event("submit", "")
  /\ formData.email # <<>>
  /\ errors.email = EmailInvalid
  /\ errors.password = PasswordRequired

\* C3: when the provider call of a valid submit succeeds the form data is
\* reset to empty, and the navigation to '/dashboard' eventually follows the
\* delay whatever the user does in between (edits, toggles).
C3_SuccessClearsFormAndNavigates ==
  /\ [][lastEvent' = Event("submitResolved", "")
          => formData' = EmptyFormData]_vars
  /\ \A n \in 0..MaxOps :
       (submitPc = "delay" /\ Len(navs) = n)
         ~> (Len(navs) > n /\ navs[n + 1] = DashboardPath)

C3_Witness ==
  /\ lastEvent = Event("submitNavigated", "")
  /\ navs = <<DashboardPath>>
  /\ formData.email # <<>>
  /\ authMode = "signUp"
  /\ calls[1].op = SignInOp

OtherField(name) == IF name = "email" THEN "password" ELSE "email"

\* C4: editing a field whose validation error is set clears that field's
\* error and changes that field's value; the other field's error and value,
\* AuthMode and the success/error/redirecting/loading state stay as they are.
C4_EditClearsOwnErrorOnly ==
  [][\A name \in {"email", "password"} :
       (lastEvent' = Event("change", name) /\ Truthy(errors[name]))
         => /\ errors'[name] = undefined
            /\ errors'[OtherField(name)] = errors[OtherField(name)]
            /\ formData'[OtherField(name)] = formData[OtherField(name)]
            /\ UNCHANGED <<authMode, successMessage, authError, isRedirecting,
                           isLoading, isGoogleLoading>>]_vars

C4_Witness ==
  /\ lastEvent = Event("change", "email")
  /\ errors.email = undefined
  /\ errors.password = PasswordRequired

\* C5: when the provider's sign-out fails while the page is mounted, the
\* 'signing out' flag is reset, the message is the retry message, the
\* sign-out button is enabled again and the failing step issues no redirect;
\* the guard issues none either on a notification that reports a user.
C5_SignOutFailureStaysOnPage ==
  /\ [][(lastEvent' = Event("signOutRejected", "") /\ mounted)
          => /\ isSigningOut' = FALSE
             /\ signOutMessage' = "Sign out failed. Please try again."
             /\ redirects' = redirects
             /\ signOutPc' = "idle"
             /\ (~SignOutButtonDisabled)']_vars
  /\ [][(lastEvent' = Event("authState", "user") /\ ~isSigningOut)
          => redirects' = redirects]_vars

C5_Witness ==
  /\ lastEvent = Event("signOutRejected", "")
  /\ mounted /\ user
  /\ ~isSigningOut
  /\ signOutMessage = SignOutFailedMessage
  /\ redirects = <<>>

\* C6: a valid submit calls exactly one provider operation with the form's
\* e-mail and password, sign-up iff AuthMode is signUp at the submit; the
\* success message is the one of the operation that was called; toggling
\* AuthMode calls nothing.
C6_OneCallPerModeAtSubmit ==
  /\ [][(SubmitAttempt /\ ~FormInvalid)
          => calls' = Append(calls,
               [op |-> IF authMode = "signUp" THEN SignUpOp ELSE SignInOp,
                args |-> <<formData.email, formData.password>>])]_vars
  /\ [][(lastEvent' = Event("submitResolved", "") /\ calls # <<>>)
          => /\ calls' = calls
             /\ successMessage' =
                  IF calls[Len(calls)].op = SignUpOp THEN "Account created!"
                  ELSE "Login successful!"]_vars
  /\ [][lastEvent' = Event("toggle", "") => calls' = calls]_vars

C6_Witness ==
  /\ lastEvent = Event("submitResolved", "")
  /\ successMessage = AccountCreated
  /\ authMode = "signIn"
  /\ calls = <<[op |-> SignUpOp,
               args |-> << <<"a", "@", "b", ".", "c">>,
                           <<"1", "2", "3", "4", "5", "6">> >>]>>

C8_PathsDoNotBlock ==
  /\ isLoading => ~GoogleButtonDisabled
  /\ isGoogleLoading => ~SubmitButtonDisabled

\* C8 amended: each path sets only its own loading flag, but both buttons are
\* disabled while either flag is set: an operation starts only when neither
\* flag is set, and the two flags are never set together.
C8_PathsExcludeEachOther ==
  /\ [](~(isLoading /\ isGoogleLoading))
  /\ []((isLoading \/ isGoogleLoading)
          => (SubmitButtonDisabled /\ GoogleButtonDisabled))
  /\ [][(lastEvent'.type \in {"submit", "submitResolved", "submitRejected",
                              "submitNavigated"})
          => isGoogleLoading' = isGoogleLoading]_vars
  /\ [][(lastEvent'.type \in {"google", "googleResolved", "googleRejected",
                              "googleNavigated"})
          => isLoading' = isLoading]_vars
  /\ [][(lastEvent'.type \in {"submit", "google"})
          => (~isLoading /\ ~isGoogleLoading)]_vars

C8_Witness ==
  /\ isGoogleLoading /\ ~isLoading
  /\ SubmitButtonDisabled
  /\ googlePc = "awaitProvider"
  /\ ~FormInvalid

\* C9: while the page is mounted, a notification that reports no user and
\* arrives while the 'signing out' flag is not set makes the guard redirect
\* to the login page; a notification that reports a user never does, and no
\* notification does while the flag is set.
C9_GuardRedirectsExactlyWhenSignedOut ==
  [][(lastEvent'.type = "authState" /\ mounted)
       => IF lastEvent'.arg = "null" /\ ~isSigningOut
            THEN redirects' = Append(redirects, "guard")
            ELSE redirects' = redirects]_vars

C9_Witness ==
  /\ lastEvent = Event("authState", "null")
  /\ mounted /\ ~isSigningOut
  /\ signOutMessage = SignOutFailedMessage
  /\ redirects = <<"guard">>

\* C10: every submit attempt (also one that fails validation) and every
\* federated sign-in starts by clearing the success message and the
\* auth-error message and setting the redirecting indicator to false, and
\* they stay so while the operation waits for the provider.
C10_OperationStartResetsTransientState ==
  /\ [][(lastEvent'.type \in {"submit", "google"})
          => (successMessage' = "" /\ authError' = "" /\ ~isRedirecting')]_vars
  /\ []((submitPc = "awaitProvider" \/ googlePc = "awaitProvider")
          => (successMessage = "" /\ authError = "" /\ ~isRedirecting))

C10_Witness ==
  /\ lastEvent = Event("submit", "")
  /\ navs # <<>>
  /\ errors.email = EmailRequired
  /\ successMessage = "" /\ authError = "" /\ ~isRedirecting

PopupCall == [op |-> PopupOp, args |-> <<"GoogleAuthProvider">>]

\* C11: a federated sign-in calls the provider's popup sign-in exactly once
\* per action; on success the success message is 'Login successful!' and the
\* redirecting indicator is shown, and after the delay the navigation to
\* '/dashboard' eventually occurs.
C11_FederatedSuccessRedirects ==
  /\ [][lastEvent' = Event("google", "")
          => calls' = Append(calls, PopupCall)]_vars
  /\ [][(lastEvent'.type \in {"googleResolved", "googleRejected",
                              "googleNavigated"})
          => calls' = calls]_vars
  /\ [][lastEvent' = Event("googleResolved", "")
          => /\ successMessage' = "Login successful!"
             /\ isRedirecting'
             /\ googlePc' = "delay"]_vars
  /\ \A n \in 0..MaxOps :
       (googlePc = "delay" /\ Len(navs) = n)
         ~> (Len(navs) > n /\ navs[n + 1] = "/dashboard")

C11_Witness ==
  /\ lastEvent = Event("googleNavigated", "")
  /\ calls = <<PopupCall>>
  /\ navs = <<DashboardPath>>
  /\ successMessage = LoginSuccessful
  /\ isRedirecting

\* C12: the guard has at most one active subscription at any time (the
\* re-subscription on a change of the 'signing out' flag releases the
\* previous one), none remains after the component is unmounted, and no
\* auth-state notification makes the guard redirect after teardown.
C12_SubscriptionReleased ==
  /\ [](Len(listeners) <= 1)
  /\ [](mounted => Len(listeners) = 1)
  /\ [](~mounted => listeners = <<>>)
  /\ [][(lastEvent'.type = "authState" /\ ~mounted)
          => redirects' = redirects]_vars

C12_Witness ==
  /\ lastEvent = Event("authState", "null")
  /\ ~mounted
  /\ ~isSigningOut
  /\ signOutMessage = SignOutFailedMessage
  /\ listeners = <<>>
  /\ redirects = <<>>

\* the order of the sign-out action and the single redirect it issues
SignOutOrder ==
  /\ [][lastEvent' = Event("signOut", "")
          => /\ isSigningOut' /\ signOutMessage' = "Signed out successfully!"
             /\ signOutPc = "idle" /\ signOutPc' = "awaitSignOut"
             /\ redirects' = redirects]_vars
  /\ [][lastEvent' = Event("signOutResolved", "")
          => /\ signOutPc = "awaitSignOut" /\ signOutPc' = "delay"
             /\ redirects' = redirects]_vars
  /\ [][lastEvent' = Event("signOutRedirected", "")
          => /\ signOutPc = "delay" /\ signOutPc' = "idle"
             /\ redirects' = Append(redirects, "signOut")]_vars
  /\ [][(signOutPc # "idle" /\ redirects' # redirects)
          => lastEvent' = Event("signOutRedirected", "")]_vars

\* what the active callbacks captured as the 'signing out' flag
CallbacksObserve(flag) ==
  \A i \in 1..Len(listeners) : listeners[i] = flag

\* C13 as stated: the sign-out action keeps its order and issues the only
\* redirect, and while it runs the guard's callback still observes the
\* 'signing out' flag as false.
C13_CallbackObservesFalse ==
  /\ SignOutOrder
  /\ []((signOutPc # "idle" /\ mounted) => CallbacksObserve(FALSE))

\* C13 amended: the sign-out action keeps its order (flag and message,
\* provider sign-out, delay, redirect) and in every interleaving with
\* auth-state notifications the only redirect issued while it runs is the
\* one after the delay; the guard's callback does not redirect earlier
\* because the effect has re-subscribed it and it observes the flag as true.
C13_CallbackObservesTrue ==
  /\ SignOutOrder
  /\ []((signOutPc # "idle" /\ mounted)
          => (Len(listeners) = 1 /\ CallbacksObserve(TRUE)))

C13_Witness ==
  /\ lastEvent = Event("authState", "null")
  /\ signOutPc = "delay"
  /\ mounted /\ isSigningOut
  /\ listeners = <<TRUE>>
  /\ redirects = <<>>

\* C14: the submit loading flag is true exactly while a handleSubmit that
\* passed validation is running (from its dispatch to its end after the
\* navigation or after the recorded error), it is always eventually reset
\* once the provider call settles, and while it is true the submit button
\* shows the in-progress label of the current AuthMode.
C14_LoadingFlagFollowsHandler ==
  /\ [](isLoading <=> submitPc # "idle")
  /\ [][(lastEvent'.type \in {"submitNavigated", "submitRejected"})
          => (isLoading /\ ~isLoading')]_vars
  /\ [][(isLoading' /\ ~isLoading)
          => (lastEvent' = Event("submit", "") /\ ~FormInvalid)]_vars
  /\ [](isLoading
          => SubmitButtonLabel = IF authMode = "signUp"
                                   THEN "Creating account..."
                                   ELSE "Signing in...")
  /\ (isLoading ~> ~isLoading)

C14_Witness ==
  /\ isLoading
  /\ submitPc = "delay"
  /\ submitBranch = "signIn"
  /\ authMode = "signUp"
  /\ SubmitButtonLabel = "Creating account..."

====
